---- MODULE Spec2Model ----
(***************************************************************************)
(* Galaxy Watch Performance System (galaxy_dashboard.py).                  *)
(*                                                                         *)
(* The module models the date-range core of the dashboard script:          *)
(*   get_available_date_range, validate_date_range, filter_dates,          *)
(* the top-to-bottom script run (load, sidebar, bounds, date pickers,      *)
(* validation, filtering, role dashboard) and the errors the role          *)
(* dashboards raise.                                                       *)
(*                                                                         *)
(* Time.  A timestamp is an integer number of ticks; a calendar day has    *)
(* TicksPerDay ticks, so Timestamp.date() is integer division by           *)
(* TicksPerDay and a date, read as a point in time, is its midnight.       *)
(*                                                                         *)
(* Optional values.  A DataFrame-or-None is a record [present, rows]:      *)
(* None is Absent, DataFrame rows are the sequence of the timestamp        *)
(* column.  A date-or-None is an integer, None being NoDate.               *)
(***************************************************************************)
EXTENDS Integers, Sequences, FiniteSets

VARIABLES
    files,       \* data/ directory: per source, the parsed file or Absent
    pc,          \* position of the script run
    data,        \* the twelve module-level dataset variables
    role,        \* sidebar role selectbox
    min_date,    \* global bounds (line 152)
    max_date,
    start_date,  \* sidebar date pickers
    end_date,
    valid,       \* classification of the validate_date_range call
    ui,          \* elements written to the page, in order
    error,       \* exception that ended the run, or "none"
    h_in,        \* unit call: the arguments
    h_out        \* unit call: the results returned so far

vars == <<files, pc, data, role, min_date, max_date, start_date, end_date,
          valid, ui, error, h_in, h_out>>

pipeVars == <<files, pc, data, role, min_date, max_date, start_date, end_date,
              valid, ui, error>>

\* ------------------------------------------------------------------ bounds
\* last calendar day of the modelled period (days are 0..MaxDay)
MaxDay == 2
\* resolution of the time of day
TicksPerDay == 2
\* most records in the argument of one call
MaxRows == 2
\* most datasets in the list given to get_available_date_range
MaxDfs == 2
\* most of the twelve files that load in a sparse data/ directory
MaxPresent == 2
\* most of the twelve files that fail to load in a full data/ directory
MaxAbsent == 2

Days == 0..MaxDay
Timestamps == 0..((MaxDay + 1) * TicksPerDay - 1)

\* ------------------------------------------------------- optional values
NoDate == -1

Absent == [present |-> FALSE, rows |-> <<>>]

Frame(rows) == [present |-> TRUE, rows |-> rows]

\* df.empty
IsEmpty(df) == Len(df.rows) = 0

\* Timestamp.date() / Series.dt.date
Date(ts) == ts \div TicksPerDay

\* a date read as a point in time: midnight of that day
Midnight(d) == d * TicksPerDay

\* ------------------------------------------------------- list primitives
RECURSIVE SeqMin(_)
SeqMin(s) ==
    IF Len(s) = 1 THEN s[1]
    ELSE LET m == SeqMin(Tail(s)) IN IF s[1] <= m THEN s[1] ELSE m

RECURSIVE SeqMax(_)
SeqMax(s) ==
    IF Len(s) = 1 THEN s[1]
    ELSE LET m == SeqMax(Tail(s)) IN IF s[1] >= m THEN s[1] ELSE m

\* ------------------------------------------------- get_available_date_range
\* variant: only the minimum of each dataset is collected
RECURSIVE ValidDatesMinOnly(_)
ValidDatesMinOnly(dfs) ==
    IF Len(dfs) = 0 THEN <<>>
    ELSE LET df == dfs[Len(dfs)]
             before == ValidDatesMinOnly(SubSeq(dfs, 1, Len(dfs) - 1))
         IN  IF df.present /\ ~IsEmpty(df)
             THEN before \o <<SeqMin(df.rows)>>
             ELSE before

\* the loop of lines 31-34: valid_dates after visiting dfs in order
RECURSIVE ValidDates(_)
ValidDates(dfs) ==
    IF Len(dfs) = 0 THEN <<>>
    ELSE LET df == dfs[Len(dfs)]
             before == ValidDates(SubSeq(dfs, 1, Len(dfs) - 1))
         IN  IF df.present /\ ~IsEmpty(df)
             THEN before \o <<SeqMin(df.rows), SeqMax(df.rows)>>
             ELSE before

\* variant: one absent or empty dataset makes the whole result (None, None)
get_available_date_range_all_or_nothing(dfs) ==
    LET valid_dates == ValidDates(dfs)
    IN  IF Len(valid_dates) = 0 \/ Len(valid_dates) < 2 * Len(dfs)
        THEN <<NoDate, NoDate>>
        ELSE <<Date(SeqMin(valid_dates)), Date(SeqMax(valid_dates))>>

get_available_date_range(dfs) ==
    LET valid_dates == ValidDates(dfs)
    IN  IF Len(valid_dates) = 0
        THEN <<NoDate, NoDate>>
        ELSE <<Date(SeqMin(valid_dates)), Date(SeqMax(valid_dates))>>

\* ------------------------------------------------------ validate_date_range
\* variant: the window must lie inside the bounds
validate_date_range_containment(start, end, min_d, max_d) ==
    IF min_d = NoDate THEN "NoData"
    ELSE IF start > end THEN "InvertedRange"
    ELSE IF start < min_d \/ end > max_d THEN "OutsideBounds"
    ELSE "Ok"

\* variant: the overlap test comes before the inverted-range test
validate_date_range_overlap_first(start, end, min_d, max_d) ==
    IF min_d = NoDate THEN "NoData"
    ELSE IF end < min_d \/ start > max_d THEN "OutsideBounds"
    ELSE IF start > end THEN "InvertedRange"
    ELSE "Ok"

\* The function returns a bool and shows at most one message; the branch
\* taken is the classification:
\*   "NoData"        return False, nothing shown          (line 43)
\*   "InvertedRange" st.error(start after end), False     (line 46)
\*   "OutsideBounds" the Date Range Error box, False      (line 50)
\*   "Ok"            return True                           (line 81)
validate_date_range(start, end, min_d, max_d) ==
    IF min_d = NoDate THEN "NoData"
    ELSE IF start > end THEN "InvertedRange"
    ELSE IF end < min_d \/ start > max_d THEN "OutsideBounds"
    ELSE "Ok"

\* ------------------------------------------------------------- filter_dates
\* variant: the end of the window is exclusive
InWindowEndExclusive(ts, start, end) == Date(ts) >= start /\ Date(ts) < end

\* variant: the two comparisons are the wrong way round
InWindowSwapped(ts, start, end) == Date(ts) <= start /\ Date(ts) >= end

InWindow(ts, start, end) == Date(ts) >= start /\ Date(ts) <= end

\* variant: the timestamp, not its calendar date, is compared with the window
filter_dates_untruncated(df, start, end) ==
    IF ~df.present THEN Absent
    ELSE Frame(SelectSeq(df.rows,
                         LAMBDA ts : ts >= Midnight(start) /\ ts <= Midnight(end)))

filter_dates(df, start, end) ==
    IF ~df.present THEN Absent
    ELSE Frame(SelectSeq(df.rows, LAMBDA ts : InWindow(ts, start, end)))

\* ------------------------------------------------------------------ script
SourceList ==
    <<"calories", "activity", "heart", "sleep", "stress", "energy",
      "spo2", "bp", "ecg", "falls", "body", "antiox">>

Sources == {SourceList[i] : i \in 1..Len(SourceList)}

Roles == {"Athlete", "Coach", "Trainer", "Team Doctor"}

\* pd.read_csv + pd.to_datetime inside try/except: any failure gives None
load_csv(dir, name) ==
    IF dir[name].present THEN Frame(dir[name].rows) ELSE Absent

\* variant: the pickers offer every day
date_input_unconstrained(min_value, max_value) == Days

\* st.sidebar.date_input(min_value=, max_value=): the selectable dates
date_input(min_value, max_value) == min_value..max_value

\* px.line(df, x="timestamp", ...): plotly raises ValueError when the
\* data frame is None and a column is named by a string
line_chart(df) == IF df.present THEN "none" ELSE "ValueError"

\* df[col].iloc[-1]: IndexError on a frame without rows
iloc_last(df) == IF IsEmpty(df) THEN "IndexError" ELSE "none"

\* One statement of a role dashboard:
\*   "last"     int(df[col].iloc[-1]) if df is not None else 0
\*   "chart"    line_chart(df, ...)                       (not guarded)
\*   "chart_if" if df is not None: <chart, metric or table of df>
\*   "alert"    if df is not None and <threshold on df>: st.warning/error
\*   "emit"     an element that reads no dataset
Stmt(kind, src) == [kind |-> kind, src |-> src]

RoleStatements(r) ==
    CASE r = "Athlete" ->
           << Stmt("last", "energy"), Stmt("last", "calories"),
              Stmt("last", "activity"), Stmt("emit", "metric_row"),
              Stmt("chart_if", "sleep"), Stmt("chart_if", "stress") >>
      [] r = "Coach" ->
           << Stmt("alert_last", "energy"),
              Stmt("chart", "calories"), Stmt("chart", "activity"),
              Stmt("chart", "heart"), Stmt("chart", "energy") >>
      [] r = "Trainer" ->
           << Stmt("chart_if", "heart"), Stmt("chart_if", "body"),
              Stmt("chart_if", "body"), Stmt("chart_if", "sleep") >>
      [] r = "Team Doctor" ->
           << Stmt("alert_min", "spo2"), Stmt("chart_if", "ecg"),
              Stmt("chart", "heart"), Stmt("chart", "spo2"),
              Stmt("chart_if", "bp"), Stmt("chart_if", "falls") >>

\* exception raised by one statement, or "none"
StmtError(st, d) ==
    CASE st.kind = "last" ->
           IF d[st.src].present THEN iloc_last(d[st.src]) ELSE "none"
      [] st.kind = "alert_last" ->
           IF d[st.src].present THEN iloc_last(d[st.src]) ELSE "none"
      [] st.kind = "chart" -> line_chart(d[st.src])
      [] OTHER -> "none"

\* elements one statement writes; alert is whether the threshold is crossed
StmtUi(st, d, alert) ==
    CASE st.kind = "emit" -> <<st.src>>
      [] st.kind = "chart" -> <<st.src>>
      [] st.kind = "chart_if" -> IF d[st.src].present THEN <<st.src>> ELSE <<>>
      [] st.kind = "alert_last" ->
           IF d[st.src].present /\ alert THEN <<"alert">> ELSE <<>>
      [] st.kind = "alert_min" ->
           IF d[st.src].present /\ ~IsEmpty(d[st.src]) /\ alert
           THEN <<"alert">> ELSE <<>>
      [] OTHER -> <<>>

\* the statements run in order until one raises
RECURSIVE RunStatements(_, _, _)
RunStatements(sts, d, alert) ==
    IF Len(sts) = 0 THEN [ui |-> <<>>, error |-> "none"]
    ELSE LET e == StmtError(sts[1], d)
         IN  IF e # "none" THEN [ui |-> <<>>, error |-> e]
             ELSE LET rest == RunStatements(Tail(sts), d, alert)
                  IN  [ui |-> StmtUi(sts[1], d, alert) \o rest.ui,
                       error |-> rest.error]

\* whether a threshold alert can fire at all for this role and data
CanAlert(r, d) ==
    \/ r = "Coach" /\ d["energy"].present /\ ~IsEmpty(d["energy"])
    \/ r = "Team Doctor" /\ d["spo2"].present /\ ~IsEmpty(d["spo2"])

\* ---------------------------------------------------------- file contents
\* Recordings a file of the data/ directory may hold: no rows, one record
\* in the afternoon of the middle day, or a first-day and a last-day record
\* with nothing between them.
Recordings ==
    { <<>>,
      <<Midnight(MaxDay \div 2) + (TicksPerDay - 1)>>,
      <<Midnight(0), Midnight(MaxDay) + (TicksPerDay - 1)>> }

\* sparse directories: at most MaxPresent of the files load, each with
\* any recording
SparseDirectories ==
    UNION { { [s \in Sources |-> IF s \in S THEN Frame(f[s]) ELSE Absent] :
                f \in [S -> Recordings] } :
            S \in { T \in SUBSET Sources : Cardinality(T) <= MaxPresent } }

\* full directories: at most MaxAbsent of the files fail to load, the
\* others all cover the same recording
FullDirectories ==
    UNION { { [s \in Sources |-> IF s \in S THEN Absent ELSE Frame(r)] :
                r \in Recordings } :
            S \in { T \in SUBSET Sources : Cardinality(T) <= MaxAbsent } }

Directories == SparseDirectories \cup FullDirectories

NothingLoaded == [s \in Sources |-> Absent]

\* -------------------------------------------------------------- script run
Init ==
    /\ files \in Directories
    /\ pc = "load"
    /\ data = NothingLoaded
    /\ role = "Athlete"
    /\ min_date = NoDate
    /\ max_date = NoDate
    /\ start_date = NoDate
    /\ end_date = NoDate
    /\ valid = "none"
    /\ ui = <<>>
    /\ error = "none"
    /\ h_in = <<>>
    /\ h_out = <<>>

\* lines 128-139
Load ==
    /\ pc = "load"
    /\ data' = [s \in Sources |-> load_csv(files, s)]
    /\ pc' = "sidebar"
    /\ UNCHANGED <<files, role, min_date, max_date, start_date, end_date,
                   valid, ui, error, h_in, h_out>>

\* lines 144-149
SelectRole ==
    /\ pc = "sidebar"
    /\ \E r \in Roles : role' = r
    /\ ui' = ui \o <<"sidebar">>
    /\ pc' = "bounds"
    /\ UNCHANGED <<files, data, min_date, max_date, start_date, end_date,
                   valid, error, h_in, h_out>>

\* lines 152-159
ComputeBounds ==
    /\ pc = "bounds"
    /\ LET b == get_available_date_range([i \in 1..Len(SourceList) |->
                                              data[SourceList[i]]])
       IN  /\ min_date' = b[1]
           /\ max_date' = b[2]
           /\ IF b[1] = NoDate
              THEN /\ ui' = ui \o <<"no_valid_data">>
                   /\ pc' = "stopped"
              ELSE /\ ui' = ui
                   /\ pc' = "pickers"
    /\ UNCHANGED <<files, data, role, start_date, end_date, valid, error,
                   h_in, h_out>>

\* lines 161-162
PickDates ==
    /\ pc = "pickers"
    /\ \E s \in date_input(min_date, max_date) : start_date' = s
    /\ \E e \in date_input(min_date, max_date) : end_date' = e
    /\ ui' = ui \o <<"pickers">>
    /\ pc' = "validate"
    /\ UNCHANGED <<files, data, role, min_date, max_date, valid, error,
                   h_in, h_out>>

\* what validate_date_range writes to the page
ValidationMessage(v) ==
    CASE v = "InvertedRange" -> <<"inverted_error">>
      [] v = "OutsideBounds" -> <<"outside_error">>
      [] OTHER -> <<>>

\* variant: the run goes on after a failed validation
ValidateNoStop ==
    /\ pc = "validate"
    /\ LET v == validate_date_range(start_date, end_date, min_date, max_date)
       IN  /\ valid' = v
           /\ ui' = ui \o ValidationMessage(v)
           /\ pc' = "filter"
    /\ UNCHANGED <<files, data, role, min_date, max_date, start_date,
                   end_date, error, h_in, h_out>>

\* lines 164-165
Validate ==
    /\ pc = "validate"
    /\ LET v == validate_date_range(start_date, end_date, min_date, max_date)
       IN  /\ valid' = v
           /\ ui' = ui \o ValidationMessage(v)
           /\ pc' = IF v = "Ok" THEN "filter" ELSE "stopped"
    /\ UNCHANGED <<files, data, role, min_date, max_date, start_date,
                   end_date, error, h_in, h_out>>

\* lines 169-180
ApplyFiltering ==
    /\ pc = "filter"
    /\ data' = [s \in Sources |-> filter_dates(data[s], start_date, end_date)]
    /\ pc' = "render"
    /\ UNCHANGED <<files, role, min_date, max_date, start_date, end_date,
                   valid, ui, error, h_in, h_out>>

\* lines 186-276
Render ==
    /\ pc = "render"
    /\ \E alert \in BOOLEAN :
         /\ alert => CanAlert(role, data)
         /\ LET r == RunStatements(RoleStatements(role), data, alert)
            IN  /\ error' = r.error
                /\ IF r.error = "none"
                   THEN /\ ui' = ui \o <<"header">> \o r.ui \o <<"footer">>
                        /\ pc' = "done"
                   ELSE /\ ui' = ui \o <<"header">> \o r.ui
                        /\ pc' = "crashed"
    /\ UNCHANGED <<files, data, role, min_date, max_date, start_date,
                   end_date, valid, h_in, h_out>>

\* the next user interaction runs the script again from the top
Rerun ==
    /\ pc \in {"stopped", "done", "crashed"}
    /\ pc' = "load"
    /\ data' = NothingLoaded
    /\ role' = "Athlete"
    /\ min_date' = NoDate
    /\ max_date' = NoDate
    /\ start_date' = NoDate
    /\ end_date' = NoDate
    /\ valid' = "none"
    /\ ui' = <<>>
    /\ error' = "none"
    /\ UNCHANGED <<files, h_in, h_out>>

Next ==
    \/ Load
    \/ SelectRole
    \/ ComputeBounds
    \/ PickDates
    \/ Validate
    \/ ApplyFiltering
    \/ Render
    \/ Rerun

Spec == Init /\ [][Next]_vars

\* --------------------------------------------------------------- unit calls
\* The three helpers called on their own, on every argument within the
\* bounds.  h_in holds the arguments, h_out the values returned so far; the
\* script variables stay idle.
Idle ==
    /\ files = NothingLoaded
    /\ pc = "unit"
    /\ data = NothingLoaded
    /\ role = "Athlete"
    /\ min_date = NoDate
    /\ max_date = NoDate
    /\ start_date = NoDate
    /\ end_date = NoDate
    /\ valid = "none"
    /\ ui = <<>>
    /\ error = "none"

\* timestamp columns of exactly n records
RowsOfLen(n) == [1..n -> Timestamps]

\* DataFrame-or-None arguments of at most n records
OptFrames(n) ==
    {Absent} \cup UNION { {Frame(r) : r \in RowsOfLen(k)} : k \in 0..n }

\* records held by a list of optional datasets
RECURSIVE TotalRows(_)
TotalRows(dfs) ==
    IF Len(dfs) = 0 THEN 0 ELSE Len(dfs[1].rows) + TotalRows(Tail(dfs))

\* dates or (None, None) as bounds arguments
BoundsArgs ==
    { <<NoDate, NoDate>> } \cup { b \in Days \X Days : b[1] <= b[2] }

\* the list of datasets is built one dataset at a time, at most MaxDfs
\* datasets of at most MaxRows records together, and may be passed to
\* get_available_date_range at any length
InitRange ==
    /\ Idle
    /\ h_in = [dfs |-> <<>>]
    /\ h_out = <<>>

AddDataset ==
    /\ pc = "unit"
    /\ Len(h_out) = 0
    /\ Len(h_in.dfs) < MaxDfs
    /\ \E d \in OptFrames(MaxRows - TotalRows(h_in.dfs)) :
         h_in' = [dfs |-> Append(h_in.dfs, d)]
    /\ UNCHANGED <<pipeVars, h_out>>

CallRange ==
    /\ pc = "unit"
    /\ Len(h_out) = 0
    /\ h_out' = <<get_available_date_range(h_in.dfs)>>
    /\ UNCHANGED <<pipeVars, h_in>>

NextRange == AddDataset \/ CallRange

SpecRange == InitRange /\ [][NextRange]_vars

InitValidate ==
    /\ Idle
    /\ \E s \in Days, e \in Days, b \in BoundsArgs :
         h_in = [start |-> s, end |-> e, min_date |-> b[1], max_date |-> b[2]]
    /\ h_out = <<>>

CallValidate ==
    /\ pc = "unit"
    /\ Len(h_out) = 0
    /\ h_out' = <<validate_date_range(h_in.start, h_in.end,
                                      h_in.min_date, h_in.max_date)>>
    /\ UNCHANGED <<pipeVars, h_in>>

SpecValidate == InitValidate /\ [][CallValidate]_vars

\* one dataset filtered with a window and then with a second window
InitFilter ==
    /\ Idle
    /\ \E d \in OptFrames(MaxRows), s \in Days, e \in Days, s2 \in Days, e2 \in Days :
         h_in = [df |-> d, start |-> s, end |-> e, start2 |-> s2, end2 |-> e2]
    /\ h_out = <<>>

CallFilter ==
    /\ pc = "unit"
    /\ Len(h_out) = 0
    /\ h_out' = <<filter_dates(h_in.df, h_in.start, h_in.end)>>
    /\ UNCHANGED <<pipeVars, h_in>>

CallFilterAgain ==
    /\ pc = "unit"
    /\ Len(h_out) = 1
    /\ h_out' = h_out \o <<filter_dates(h_in.df, h_in.start2, h_in.end2)>>
    /\ UNCHANGED <<pipeVars, h_in>>

NextFilter == CallFilter \/ CallFilterAgain

SpecFilter == InitFilter /\ [][NextFilter]_vars

\* The three helpers composed as the script composes them (lines 152-180),
\* on a list of datasets built as for get_available_date_range and with
\* any window of Days, also one reaching beyond the bounds:
\*   h_out = <<bounds>>                          after CallRange
\*   h_out = <<bounds, window and answer>>       after ComposeValidate
\*   h_out = <<bounds, window and answer, filtered datasets>>
\*                                               after ComposeFilter
\* validation is reached only with bounds: on (None, None) the script
\* stops at lines 157-159 and nothing follows
ComposeValidate ==
    /\ pc = "unit"
    /\ Len(h_out) = 1
    /\ h_out[1][1] # NoDate
    /\ \E s \in Days, e \in Days :
         h_out' = h_out \o
                  << [start |-> s, end |-> e,
                      valid |-> validate_date_range(s, e, h_out[1][1], h_out[1][2])] >>
    /\ UNCHANGED <<pipeVars, h_in>>

\* filtering follows only an accepted window (line 164)
ComposeFilter ==
    /\ pc = "unit"
    /\ Len(h_out) = 2
    /\ h_out[2].valid = "Ok"
    /\ h_out' = h_out \o
                << [i \in 1..Len(h_in.dfs) |->
                       filter_dates(h_in.dfs[i], h_out[2].start, h_out[2].end)] >>
    /\ UNCHANGED <<pipeVars, h_in>>

NextCompose == AddDataset \/ CallRange \/ ComposeValidate \/ ComposeFilter

SpecCompose == InitRange /\ [][NextCompose]_vars

\* ================================================================== claims
Called == pc = "unit" /\ Len(h_out) >= 1

\* a is b with some elements left out
RECURSIVE IsSubsequence(_, _)
IsSubsequence(a, b) ==
    IF Len(a) = 0 THEN TRUE
    ELSE IF Len(b) = 0 THEN FALSE
    ELSE IF a[1] = b[1] THEN IsSubsequence(Tail(a), Tail(b))
    ELSE IsSubsequence(a, Tail(b))

\* ---- C1 (SpecValidate).  For a window with start <= end and present
\* bounds, the call answers OutsideBounds exactly when end < min or
\* start > max, and Ok in every other case.
C1_OverlapTest ==
    (Called /\ h_in.start <= h_in.end /\ h_in.min_date # NoDate) =>
        LET disjoint == h_in.end < h_in.min_date \/ h_in.start > h_in.max_date
        IN  /\ (h_out[1] = "OutsideBounds") <=> disjoint
            /\ (h_out[1] = "Ok") <=> ~disjoint

\* a window reaching beyond the bounds on both sides is accepted
C1_Witness ==
    /\ Called
    /\ h_in.min_date # NoDate
    /\ h_in.start < h_in.min_date
    /\ h_in.end > h_in.max_date
    /\ h_out[1] = "Ok"

\* ---- C2 as stated (SpecValidate).  A window with start > end is
\* classified InvertedRange for every bounds argument, absent bounds too.
C2_InvertedForEveryBounds ==
    (Called /\ h_in.start > h_in.end) => h_out[1] = "InvertedRange"

\* ---- C2 amended (SpecValidate).  A window with start > end is classified
\* InvertedRange for every present bounds, wherever they lie, and NoData
\* when the bounds are absent: the absent-bounds test comes first.
C2_InvertedForPresentBounds ==
    (Called /\ h_in.start > h_in.end) =>
        h_out[1] = IF h_in.min_date = NoDate THEN "NoData" ELSE "InvertedRange"

\* an inverted window that also lies wholly before the bounds
C2_Witness ==
    /\ Called
    /\ h_in.start > h_in.end
    /\ h_in.min_date # NoDate
    /\ h_in.start < h_in.min_date
    /\ h_out[1] = "InvertedRange"

PresentNonEmpty(dfs) == { i \in 1..Len(dfs) : dfs[i].present /\ ~IsEmpty(dfs[i]) }

\* ---- C3 as stated (SpecRange).  With at least one present, non-empty
\* dataset, the returned dates, read as points in time, enclose every
\* timestamp: min <= every timestamp and max >= every timestamp.
C3_BoundsEncloseTimestamps ==
    (Called /\ PresentNonEmpty(h_in.dfs) # {}) =>
        \A i \in PresentNonEmpty(h_in.dfs) :
            \A j \in 1..Len(h_in.dfs[i].rows) :
                /\ Midnight(h_out[1][1]) <= h_in.dfs[i].rows[j]
                /\ Midnight(h_out[1][2]) >= h_in.dfs[i].rows[j]

\* ---- C3 amended (SpecRange).  With at least one present, non-empty
\* dataset, min (at midnight) <= every timestamp, and max >= the calendar
\* date of every timestamp; max at midnight may precede the latest
\* timestamp by less than a day.
C3_BoundsEncloseDates ==
    (Called /\ PresentNonEmpty(h_in.dfs) # {}) =>
        \A i \in PresentNonEmpty(h_in.dfs) :
            \A j \in 1..Len(h_in.dfs[i].rows) :
                /\ Midnight(h_out[1][1]) <= h_in.dfs[i].rows[j]
                /\ h_out[1][1] <= Date(h_in.dfs[i].rows[j])
                /\ h_out[1][2] >= Date(h_in.dfs[i].rows[j])
                /\ Midnight(h_out[1][2] + 1) > h_in.dfs[i].rows[j]

\* two non-empty datasets on different days, the later one after midnight
C3_Witness ==
    /\ Called
    /\ Len(h_in.dfs) = 2
    /\ PresentNonEmpty(h_in.dfs) = {1, 2}
    /\ Date(h_in.dfs[1].rows[1]) > Date(h_in.dfs[2].rows[1])
    /\ h_in.dfs[1].rows[1] > Midnight(Date(h_in.dfs[1].rows[1]))
    /\ h_out[1][1] < h_out[1][2]

\* ---- C4 (SpecRange).  The result is (None, None) exactly when no dataset
\* of the list is both present and non-empty; otherwise two dates are
\* returned.
C4_NoBoundsIffNothingUsable ==
    Called =>
        /\ (h_out[1] = <<NoDate, NoDate>>) <=> (PresentNonEmpty(h_in.dfs) = {})
        /\ (PresentNonEmpty(h_in.dfs) # {}) =>
               (h_out[1][1] \in Days /\ h_out[1][2] \in Days)

\* an absent dataset followed by a present, empty one
C4_Witness ==
    /\ Called
    /\ Len(h_in.dfs) = 2
    /\ ~h_in.dfs[1].present
    /\ h_in.dfs[2].present
    /\ IsEmpty(h_in.dfs[2])
    /\ h_out[1] = <<NoDate, NoDate>>

\* positions of the records of df whose calendar date lies in [start, end]
KeptPositions(df, start, end) ==
    { i \in 1..Len(df.rows) : start <= Date(df.rows[i]) /\ Date(df.rows[i]) <= end }

\* ---- C5 (SpecFilter).  The result is absent iff the dataset is absent;
\* for a present dataset it holds exactly the records dated within
\* [start, end], both ends included, each once and in the original order.
C5_FilterExact ==
    Called =>
        /\ h_out[1].present <=> h_in.df.present
        /\ LET keep == KeptPositions(h_in.df, h_in.start, h_in.end)
               res == h_out[1].rows
           IN  /\ Len(res) = Cardinality(keep)
               /\ \A i \in keep :
                      res[Cardinality({k \in keep : k <= i})] = h_in.df.rows[i]

\* a record dated on the end day is kept and a later record is dropped
C5_Witness ==
    /\ Called
    /\ h_in.df.present
    /\ Len(h_in.df.rows) = 2
    /\ Len(h_out[1].rows) = 1
    /\ Date(h_out[1].rows[1]) = h_in.end
    /\ h_in.start < h_in.end

\* ---- C6 (SpecFilter).  If the second window lies inside the first
\* (start2 >= start, end2 <= end), the result for the second window is a
\* subsequence of the result for the first.
C6_Monotone ==
    (pc = "unit" /\ Len(h_out) = 2 /\ h_in.start2 >= h_in.start /\ h_in.end2 <= h_in.end) =>
        /\ h_out[2].present <=> h_out[1].present
        /\ IsSubsequence(h_out[2].rows, h_out[1].rows)

\* the inner window keeps fewer records than the outer one, but some
C6_Witness ==
    /\ pc = "unit"
    /\ Len(h_out) = 2
    /\ h_in.start2 >= h_in.start
    /\ h_in.end2 <= h_in.end
    /\ Len(h_out[2].rows) >= 1
    /\ Len(h_out[2].rows) < Len(h_out[1].rows)

\* bounds computed, window accepted against them, datasets filtered
Composed == pc = "unit" /\ Len(h_out) = 3

SomeRecordLeft ==
    \E i \in 1..Len(h_out[3]) : h_out[3][i].present /\ ~IsEmpty(h_out[3][i])

\* ---- C7 as stated (SpecCompose).  After a window accepted against the
\* computed bounds has been applied to the datasets, some dataset still
\* holds a record.
C7_AcceptedWindowKeepsARecord ==
    Composed => SomeRecordLeft

\* ---- C7 amended (SpecCompose).  After an accepted window that contains
\* the lower or the upper bound date has been applied, as every accepted
\* window reaching to or beyond an end of the bounds does, some dataset
\* still holds a record; an accepted window strictly between the two bound
\* dates may leave none.
C7_WindowOnABoundKeepsARecord ==
    (Composed /\ (\/ h_out[2].start <= h_out[1][1] /\ h_out[1][1] <= h_out[2].end
                  \/ h_out[2].start <= h_out[1][2] /\ h_out[1][2] <= h_out[2].end)) =>
        SomeRecordLeft

\* a window that starts before the bounds and ends inside them: accepted,
\* and the filtered result holds some but not all of the records
C7_Witness ==
    /\ Composed
    /\ h_out[2].start < h_out[1][1]
    /\ h_out[2].end >= h_out[1][1]
    /\ h_out[2].end < h_out[1][2]
    /\ h_out[2].valid = "Ok"
    /\ SomeRecordLeft
    /\ \E i \in 1..Len(h_out[3]) : Len(h_out[3][i].rows) < Len(h_in.dfs[i].rows)

\* ---- C8 (Spec).  No run ends in the error that an absent dataset
\* raises in a chart.
C8_AbsentNeverCrashes ==
    ~(pc = "crashed" /\ error = "ValueError")

Shown(x) == \E i \in 1..Len(ui) : ui[i] = x

\* ---- C9 (Spec).  Every step of a run keeps the order load, bounds,
\* validation, filtering, rendering: validation is attempted only with
\* bounds, absent bounds and a failed validation stop the run with the
\* datasets unfiltered and nothing of the dashboard shown, and filtering
\* and rendering only follow a validation that returned Ok.
C9_FailureHaltsThePass ==
    [][ /\ (pc' = "sidebar") => (pc = "load")
        /\ (pc' = "bounds") => (pc = "sidebar")
        /\ (pc' = "pickers") => (pc = "bounds" /\ min_date' # NoDate)
        /\ (pc = "bounds" /\ min_date' = NoDate) =>
               (pc' = "stopped" /\ valid' = "none" /\ data' = data)
        /\ (pc' = "validate") => (pc = "pickers" /\ min_date # NoDate)
        /\ (pc = "validate" /\ valid' # "Ok") => (pc' = "stopped" /\ data' = data)
        /\ (pc' = "filter") => (pc = "validate" /\ valid' = "Ok")
        /\ (pc' = "render") => (pc = "filter" /\ valid = "Ok")
        /\ (pc' \in {"done", "crashed"}) => (pc = "render" /\ valid = "Ok")
        /\ (pc = "stopped") => (pc' = "load")
        /\ (pc' = "stopped") => (data' = [s \in Sources |-> load_csv(files, s)]
                                 /\ ~Shown("header")')
        /\ Shown("header")' => (valid' = "Ok")
      ]_vars

\* a run stopped by an inverted window, datasets as loaded, no dashboard
C9_Witness ==
    /\ pc = "stopped"
    /\ valid = "InvertedRange"
    /\ data = [s \in Sources |-> load_csv(files, s)]
    /\ \E s \in Sources : data[s].present /\ Len(data[s].rows) = 2
    /\ ~Shown("header")

\* ---- C10 (Spec).  Validation is reached only with present bounds and
\* picker dates within them, and never answers NoData or OutsideBounds.
C10_OnlyInvertedRangeCanFail ==
    /\ valid \in {"none", "Ok", "InvertedRange"}
    /\ (pc = "validate" \/ valid # "none") =>
           /\ min_date # NoDate
           /\ start_date \in min_date..max_date
           /\ end_date \in min_date..max_date

\* the pickers set to the two bounds the wrong way round
C10_Witness ==
    /\ valid = "InvertedRange"
    /\ start_date = max_date
    /\ end_date = min_date
    /\ min_date < max_date

====
